---- MODULE Spec2Model ----
(***************************************************************************)
(* Verification model of thecml/deep-bayesian-survival.                    *)
(*                                                                         *)
(*   Part 1  tools/baysurv_trainer.py   Trainer (train / validate / test / *)
(*           cleanup, early stopping, checkpoint manager)                  *)
(*   Part 2  tools/data_loader.py       BaseDataLoader.prepare_data         *)
(*   Part 3  model/train_sota_std_models.py   the script's main block       *)
(*   Part 4  tuning/tune_mlp_model.py   main, the sweep agent, train_model  *)
(*                                                                         *)
(* Each part is a program of its own with its own specification; the        *)
(* variables of the other parts stay at their initial values.               *)
(*                                                                         *)
(* Floating point losses are modelled as extended rationals: a finite      *)
(* fraction n/d in lowest terms, +infinity, or NaN, with IEEE comparison   *)
(* (every comparison with NaN is false).                                   *)
(***************************************************************************)
EXTENDS Integers, Sequences, FiniteSets, TLC

\* ------------------------------------------------------------------ bounds
MaxEpochs == 4
MaxPatience == 2
MaxBatches == 2
MaxLoss == 1
MaxSamples == 2
MaxRows == 12
MaxCols == 3

\* ------------------------------------------------------- extended rationals
RECURSIVE GCD(_, _)
GCD(a, b) == IF b = 0 THEN a ELSE GCD(b, a % b)

Fin(n) == [k |-> "fin", n |-> n, d |-> 1]
INF == [k |-> "inf", n |-> 0, d |-> 1]
NAN == [k |-> "nan", n |-> 0, d |-> 1]

Frac(n, d) == LET g == GCD(n, d) IN [k |-> "fin", n |-> n \div g, d |-> d \div g]

\* a + b in float arithmetic (no negative infinity arises: losses are >= 0)
Add(a, b) ==
    IF a.k = "nan" \/ b.k = "nan" THEN NAN
    ELSE IF a.k = "inf" \/ b.k = "inf" THEN INF
    ELSE Frac(a.n * b.d + b.n * a.d, a.d * b.d)

\* a > b in float arithmetic
Gt(a, b) ==
    IF a.k = "nan" \/ b.k = "nan" THEN FALSE
    ELSE IF a.k = "inf" THEN b.k = "fin"
    ELSE IF b.k = "inf" THEN FALSE
    ELSE a.n * b.d > b.n * a.d

\* tf.math.divide_no_nan(total, count) for an integer count >= 0
DivNoNan(t, c) ==
    IF c = 0 THEN Fin(0)
    ELSE IF t.k = "fin" THEN Frac(t.n, t.d * c)
    ELSE t

\* ------------------------------------------------- tf.keras.metrics.Mean
NewMean == [total |-> Fin(0), count |-> 0]
UpdateState(m, v) == [total |-> Add(m.total, v), count |-> m.count + 1]
Result(m) == DivNoNan(m.total, m.count)

\* ------------------------------------------------------------- datasets
None == [none |-> TRUE, batches |-> 0]
Dataset(n) == [none |-> FALSE, batches |-> n]

Phases == {"train", "valid", "test"}
LossVals == {Fin(n) : n \in 0..MaxLoss} \cup {INF, NAN}
Quiet == {Fin(1)}

\* the model names train() runs the Monte Carlo loop for, and those among
\* them whose output distribution it samples
McNames == {"MLP-ALEA", "VI", "VI-EPI", "MCD-EPI", "MCD"}
McSampleNames == {"MLP-ALEA", "VI", "MCD"}

\* the same two lists as validate() and as test() spell them out
ValidMcNames == {"MLP-ALEA", "VI", "VI-EPI", "MCD-EPI", "MCD"}
ValidSampleNamesAll == ValidMcNames

ValidSampleNames == {"MLP-ALEA", "VI", "MCD"}
TestMcNames == {"MLP-ALEA", "VI", "VI-EPI", "MCD-EPI", "MCD"}
TestSampleNames == {"MLP-ALEA", "VI", "MCD"}
ModelNames == McNames \cup {"SNGP", "MLP"}

VARIABLES
    \* Trainer fields set by __init__ and never assigned again
    model_name, loss_fn, train_ds, valid_ds, test_ds, num_epochs,
    early_stop, patience, n_samples_train, n_samples_valid, n_samples_test,
    \* Trainer fields that change
    train_loss_metric, valid_loss_metric, test_loss_metric,
    train_loss_scores, valid_loss_scores, test_loss_scores, test_variance,
    best_val_nll, best_ep, manager, save_counter,
    \* train_and_evaluate's locals and position
    pc, epoch, batch, stop_training,
    \* the model and optimizer: number of apply_gradients calls so far, the
    \* forward passes of the batch processed last
    weights, model_calls,
    \* the loss the last training step differentiated and the value it fed to
    \* train_loss_metric; the weights each manager.save() of this run wrote;
    \* the number of reset_covariance_matrix calls
    tape_loss, saved_weights, covariance_resets,
    \* history: the batch losses fed to each metric in the current epoch, the
    \* number of cleanup calls, the methods completed in the current epoch
    epoch_batches, cleanups, epoch_phases,
    \* prepare_data: row counts of X and of the four splits, test_size in tenths
    prep_pc, X, test_size, X_train, X_rem, X_valid, X_test,
    \* train_sota_std_models: loop positions, the results table, the csv written
    sota_pc, ds_idx, zip_idx, trained_models, sota_loss, results, csv,
    \* tune_mlp_model: the --dataset argument, the columns of the loaded frame,
    \* the agent's run counter, train_model's locals
    tune_pc, dataset, ncols, run, dl, exc, fold, logged,
    \* the tuning scripts: which script runs, its --model argument
    \* (tune_sota_models only), and as history the number of sweeps created,
    \* of load_data calls and of models built
    script, tune_model_name, sweeps, loaded, built,
    \* model_trainer.Trainer: the keyword arguments of the constructor call,
    \* the fields __init__ sets, the six accumulators and the six score lists,
    \* train_and_evaluate's position, the exception raised, and as history the
    \* number of cleanup calls and the methods completed in the current epoch
    mt_pc, mt_kwargs, mt_num_epochs, mt_train_ds, mt_valid_ds, mt_test_ds,
    mt_metrics, mt_scores, mt_epoch, mt_batch, mt_exc, mt_cleanups, mt_phases

prepvars == <<prep_pc, X, test_size, X_train, X_rem, X_valid, X_test>>
sotavars == <<sota_pc, ds_idx, zip_idx, trained_models, sota_loss, results, csv>>
tunevars == <<tune_pc, dataset, ncols, run, dl, exc, fold, logged,
              script, tune_model_name, sweeps, loaded, built>>

cfgvars == <<model_name, loss_fn, train_ds, valid_ds, test_ds, num_epochs,
             early_stop, patience, n_samples_train, n_samples_valid, n_samples_test>>
metricvars == <<train_loss_metric, valid_loss_metric, test_loss_metric>>
scorevars == <<train_loss_scores, valid_loss_scores, test_loss_scores, test_variance>>
bestvars == <<best_val_nll, best_ep>>
ckptvars == <<manager, save_counter>>
trainervars == <<cfgvars, metricvars, scorevars, bestvars, ckptvars,
                 pc, epoch, batch, stop_training, weights, model_calls,
                 tape_loss, saved_weights, covariance_resets,
                 epoch_batches, cleanups, epoch_phases>>
mtvars == <<mt_pc, mt_kwargs, mt_num_epochs, mt_train_ds, mt_valid_ds, mt_test_ds,
            mt_metrics, mt_scores, mt_epoch, mt_batch, mt_exc, mt_cleanups, mt_phases>>
scriptvars == <<prepvars, sotavars, tunevars, mtvars>>
vars == <<trainervars, scriptvars>>

NoBatches == [p \in Phases |-> <<>>]

\* no training step made yet
NoLoss == [loss |-> "none", metric |-> "none"]

\* ----------------------------------------------------- Trainer.__init__
\* prior: checkpoints an earlier run left in MODELS_DIR (oldest first); the
\* manager recovers them and counts them against max_to_keep.
PriorKept(prior) == [i \in 1..prior |-> [n |-> i, epoch |-> 0]]

InitialBestEpZero == -1 + 1

\* self.best_ep = -1
InitialBestEp == -1

TrainerFields(prior) ==
    /\ train_loss_metric = NewMean
    /\ valid_loss_metric = NewMean
    /\ test_loss_metric = NewMean
    /\ train_loss_scores = <<>>
    /\ valid_loss_scores = <<>>
    /\ test_loss_scores = <<>>
    /\ test_variance = <<>>
    /\ best_val_nll = INF
    /\ best_ep = InitialBestEp
    /\ manager = [max_to_keep |-> num_epochs, kept |-> PriorKept(prior)]
    /\ save_counter = 0
    /\ epoch = 0
    /\ batch = 0
    /\ stop_training = FALSE
    /\ weights = 0
    /\ model_calls = <<>>
    /\ epoch_batches = NoBatches
    /\ cleanups = 0
    /\ tape_loss = NoLoss
    /\ saved_weights = <<>>
    /\ covariance_resets = 0
    /\ epoch_phases = <<>>

TrainerInit(prior) == TrainerFields(prior) /\ pc = "call"

\* no Trainer under way
TrainerIdle ==
    /\ model_name = "MLP"
    /\ loss_fn = [cls |-> "CoxPHLoss", range |-> [p \in Phases |-> Quiet]]
    /\ train_ds = Dataset(0) /\ valid_ds = None /\ test_ds = None
    /\ num_epochs = 1 /\ early_stop = FALSE /\ patience = 0
    /\ n_samples_train = 1 /\ n_samples_valid = 1 /\ n_samples_test = 1
    /\ TrainerFields(0)
    /\ pc = "idle"

\* no prepare_data call in progress
PrepIdle ==
    /\ prep_pc = "idle" /\ X = 0 /\ test_size = 7
    /\ X_train = 0 /\ X_rem = 0 /\ X_valid = 0 /\ X_test = 0

\* train_sota_std_models not running
SotaIdle ==
    /\ sota_pc = "idle" /\ ds_idx = 0 /\ zip_idx = 0 /\ trained_models = <<>>
    /\ sota_loss = "unset" /\ results = <<>> /\ csv = <<>>

MtMetricNames == {"train_loss_metric", "train_cindex_metric", "valid_loss_metric",
                  "valid_cindex_metric", "test_loss_metric", "test_cindex_metric"}
MtScoreNames == {"train_loss_scores", "train_ci_scores", "valid_loss_scores",
                 "valid_ci_scores", "test_loss_scores", "test_ci_scores"}

\* the parameters of model_trainer.Trainer.__init__
TrainerParams == {"model", "train_dataset", "valid_dataset", "test_dataset",
                  "optimizer", "loss_function", "num_epochs"}

\* model_trainer.Trainer.__init__: fresh accumulators (the number of
\* update_state calls each has seen) and empty score lists
MtFields ==
    /\ mt_metrics = [m \in MtMetricNames |-> 0]
    /\ mt_scores = [l \in MtScoreNames |-> <<>>]
    /\ mt_epoch = 0 /\ mt_batch = 0 /\ mt_exc = "none"
    /\ mt_cleanups = 0 /\ mt_phases = <<>>

\* no model_trainer.Trainer under way
MtIdle ==
    /\ mt_pc = "idle" /\ mt_kwargs = TrainerParams /\ mt_num_epochs = 0
    /\ mt_train_ds = Dataset(0) /\ mt_valid_ds = None /\ mt_test_ds = None
    /\ MtFields

\* tune_mlp_model not running
TuneIdle ==
    /\ tune_pc = "idle" /\ dataset = "SUPPORT" /\ ncols = 2 /\ run = 0
    /\ dl = "none" /\ exc = "none" /\ fold = 0 /\ logged = 0
    /\ script = "tune_mlp_model" /\ tune_model_name = "none"
    /\ sweeps = 0 /\ loaded = 0 /\ built = 0

LossFn(cls, noisy) ==
    [cls |-> cls, range |-> [p \in Phases |-> IF p \in noisy THEN LossVals ELSE Quiet]]

\* Runs that exercise early stopping: the validation loss varies.
\* (num_epochs >= 1 in every run: CheckpointManager rejects max_to_keep = 0.)
InitStopping ==
    /\ model_name = "MLP"
    /\ loss_fn = LossFn("CoxPHLoss", {"valid"})
    /\ train_ds = Dataset(1)
    /\ valid_ds \in {None, Dataset(1)}
    /\ test_ds \in {None, Dataset(1)}
    /\ num_epochs \in 1..MaxEpochs
    /\ early_stop \in BOOLEAN
    /\ patience \in -1..MaxPatience
    /\ n_samples_train = 1 /\ n_samples_valid = 1 /\ n_samples_test = 1
    /\ TrainerInit(0)

\* Runs that exercise the metric accumulators: several batches per epoch,
\* the loss of one phase varies.
InitAccum ==
    /\ model_name = "MLP"
    /\ \E p \in Phases : loss_fn = LossFn("CoxPHLoss", {p})
    /\ \E n \in 0..MaxBatches :
         /\ train_ds = Dataset(n)
         /\ valid_ds \in {None, Dataset(n)}
         /\ test_ds \in {None, Dataset(n)}
    /\ num_epochs = 2
    /\ early_stop \in BOOLEAN
    /\ patience = 0
    /\ n_samples_train = 1 /\ n_samples_valid = 1 /\ n_samples_test = 1
    /\ TrainerInit(0)

\* Runs that exercise the model families and Monte Carlo sampling.
InitMonteCarlo ==
    /\ model_name \in ModelNames
    /\ \E cls \in {"CoxPHLoss", "CoxPHLossLLA"} : loss_fn = LossFn(cls, {})
    /\ train_ds = Dataset(1)
    /\ valid_ds = Dataset(1)
    /\ test_ds = Dataset(1)
    /\ num_epochs \in 1..MaxEpochs
    /\ early_stop = FALSE
    /\ patience = 0
    /\ n_samples_train \in 1..MaxSamples
    /\ n_samples_valid \in 1..MaxSamples
    /\ n_samples_test \in 1..MaxSamples
    /\ \E prior \in {0, MaxEpochs} : TrainerInit(prior)

Init ==
    /\ InitStopping \/ InitAccum \/ InitMonteCarlo
    /\ PrepIdle /\ SotaIdle /\ TuneIdle /\ MtIdle

\* ------------------------------------------------- forward passes per batch
Call(phase, training, out) == [phase |-> phase, training |-> training, out |-> out]

\* the Monte Carlo loop: `runs` passes, each sampled (for the names in
\* `sampled`) or taken directly
McCalls(phase, training, runs, sampled) ==
    [i \in 1..runs |-> Call(phase, training,
        IF model_name \in sampled THEN "sample" ELSE "output")]

IsCoxPHLoss == loss_fn.cls = "CoxPHLoss"

TrainCalls ==
    IF model_name \in McNames
    THEN McCalls("train", TRUE, n_samples_train, McSampleNames)
    ELSE IF model_name = "SNGP" THEN <<Call("train", TRUE, "logits")>>
    ELSE <<Call("train", TRUE, "output")>>

ValidateCalls ==
    IF model_name \in ValidMcNames
    THEN McCalls("valid", FALSE, n_samples_valid, ValidSampleNames)
         \o (IF IsCoxPHLoss THEN <<>> ELSE <<Call("valid", FALSE, "unused")>>)
    ELSE IF model_name = "SNGP" THEN <<Call("valid", FALSE, "logits")>>
    ELSE <<Call("valid", FALSE, "output")>>

TestCalls ==
    IF model_name \in TestMcNames
    THEN McCalls("test", FALSE, n_samples_test, TestSampleNames)
    ELSE IF model_name = "SNGP" THEN <<Call("test", FALSE, "logits")>>
    ELSE <<Call("test", FALSE, "output")>>

\* ------------------------------------------------ tf.train.CheckpointManager
RECURSIVE Sweep(_, _)
Sweep(kept, max_to_keep) ==
    IF Len(kept) > max_to_keep THEN Sweep(Tail(kept), max_to_keep) ELSE kept

MaxToKeepOne(m) == 1

MaxToKeep(m) == m.max_to_keep

\* manager.save(): checkpoint number n written in epoch e; a file of the same
\* number is overwritten, then the oldest files beyond max_to_keep are deleted
ManagerSave(m, n, e) ==
    LET others == SelectSeq(m.kept, LAMBDA c : c.n # n)
    IN  [m EXCEPT !.kept = Sweep(Append(others, [n |-> n, epoch |-> e]), MaxToKeep(m))]

\* ------------------------------------------------ Trainer.train_and_evaluate
NextPhaseAfterTrainElif ==
    IF ~valid_ds.none THEN "validate" ELSE "cleanup"

NextPhaseAfterTrain ==
    IF ~valid_ds.none THEN "validate" ELSE IF ~test_ds.none THEN "test" ELSE "cleanup"

NextPhaseAfterValidateBreak ==
    IF stop_training' THEN "done" ELSE IF ~test_ds.none THEN "test" ELSE "cleanup"

NextPhaseAfterValidate == IF ~test_ds.none THEN "test" ELSE "cleanup"

LoopContinuesInclusive(e, n) == e <= n

LoopContinues(e, n) == e < n

ResetsCovarianceAfterFirst(e, name) == e > 1 /\ name = "SNGP"

\* if epoch > 0 and self.model_name == "SNGP"
ResetsCovariance(e, name) == e > 0 /\ name = "SNGP"

\* for epoch in range(1, num_epochs+1): next iteration, which begins with the
\* SNGP covariance reset
LoopEnter ==
    /\ pc \in {"call", "loop"}
    /\ LoopContinues(epoch, num_epochs)
    /\ epoch' = epoch + 1
    /\ covariance_resets' = IF ResetsCovariance(epoch + 1, model_name)
                            THEN covariance_resets + 1 ELSE covariance_resets
    /\ batch' = 0
    /\ pc' = "train"
    /\ epoch_batches' = NoBatches
    /\ epoch_phases' = <<>>
    /\ UNCHANGED <<scriptvars, cfgvars, metricvars, scorevars, bestvars, ckptvars,
                   stop_training, weights, model_calls, cleanups,
                   tape_loss, saved_weights>>

\* range exhausted: train_and_evaluate returns
LoopExit ==
    /\ pc \in {"call", "loop"}
    /\ ~LoopContinues(epoch, num_epochs)
    /\ pc' = "done"
    /\ UNCHANGED <<scriptvars, cfgvars, metricvars, scorevars, bestvars, ckptvars,
                   epoch, batch, stop_training, weights, model_calls,
                   epoch_batches, cleanups, tape_loss, saved_weights,
                   covariance_resets, epoch_phases>>

\* the loss handed to tape.gradient and the value handed to
\* train_loss_metric.update_state, as terms over the Cox loss of the batch
\* and the KL-divergence term tf.reduce_mean(self.model.losses)
TrainLoss ==
    IF model_name \in McNames
    THEN IF IsCoxPHLoss THEN [loss |-> "cox", metric |-> "cox"]
         ELSE IF model_name \in {"VI", "VI-EPI"}
              THEN [loss |-> "cox+kl", metric |-> "cox"]
              ELSE [loss |-> "cox", metric |-> "cox"]
    ELSE [loss |-> "cox", metric |-> "cox"]

ApplyGradientsNever(w) == w

\* optimizer.apply_gradients: one update of the weights and optimizer slots
ApplyGradients(w) == w + 1

\* one iteration of `for x, y in self.train_ds`
TrainBatch ==
    /\ pc = "train"
    /\ batch < train_ds.batches
    /\ \E loss \in loss_fn.range["train"] :
         /\ train_loss_metric' = UpdateState(train_loss_metric, loss)
         /\ epoch_batches' = [epoch_batches EXCEPT !["train"] = Append(@, loss)]
    /\ model_calls' = TrainCalls
    /\ tape_loss' = TrainLoss
    /\ weights' = ApplyGradients(weights)
    /\ batch' = batch + 1
    /\ UNCHANGED <<scriptvars, cfgvars, valid_loss_metric, test_loss_metric, scorevars,
                   bestvars, ckptvars, pc, epoch, stop_training, cleanups,
                   saved_weights, covariance_resets, epoch_phases>>

\* after the loop: record the epoch loss and save a checkpoint
TrainEnd ==
    /\ pc = "train"
    /\ batch = train_ds.batches
    /\ train_loss_scores' = Append(train_loss_scores, Result(train_loss_metric))
    /\ save_counter' = save_counter + 1
    /\ manager' = ManagerSave(manager, save_counter + 1, epoch)
    /\ saved_weights' = Append(saved_weights, weights)
    /\ epoch_phases' = Append(epoch_phases, "train")
    /\ pc' = NextPhaseAfterTrain
    /\ batch' = 0
    /\ UNCHANGED <<scriptvars, cfgvars, metricvars, valid_loss_scores, test_loss_scores,
                   test_variance, bestvars, epoch, stop_training, weights,
                   model_calls, epoch_batches, cleanups, tape_loss,
                   covariance_resets>>

\* one iteration of `for x, y in self.valid_ds`
ValidateBatch ==
    /\ pc = "validate"
    /\ batch < valid_ds.batches
    /\ \E loss \in loss_fn.range["valid"] :
         /\ valid_loss_metric' = UpdateState(valid_loss_metric, loss)
         /\ epoch_batches' = [epoch_batches EXCEPT !["valid"] = Append(@, loss)]
    /\ model_calls' = ValidateCalls
    /\ batch' = batch + 1
    /\ UNCHANGED <<scriptvars, cfgvars, train_loss_metric, test_loss_metric, scorevars,
                   bestvars, ckptvars, pc, epoch, stop_training, weights, cleanups,
                   tape_loss, saved_weights, covariance_resets, epoch_phases>>

ImprovesOrEqual(best, loss) == Gt(best, loss) \/ (best = loss /\ best.k # "nan")

\* if self.best_val_nll > epoch_loss
Improves(best, loss) == Gt(best, loss)

StopConditionGeq(e, best, pat) == (e - best) >= pat
StopConditionFromStart(e, best, pat) == e > pat

StopCondition(e, best, pat) == (e - best) > pat

EarlyStopAlways == TRUE

EarlyStopOn == early_stop

\* after the loop: record the epoch loss, early stopping, return stop_training
ValidateEnd ==
    /\ pc = "validate"
    /\ batch = valid_ds.batches
    /\ LET epoch_loss == Result(valid_loss_metric)
           improved == EarlyStopOn /\ Improves(best_val_nll, epoch_loss)
           new_ep == IF improved THEN epoch ELSE best_ep
       IN  /\ valid_loss_scores' = Append(valid_loss_scores, epoch_loss)
           /\ best_val_nll' = IF improved THEN epoch_loss ELSE best_val_nll
           /\ best_ep' = new_ep
           /\ stop_training' = (EarlyStopOn /\ StopCondition(epoch, new_ep, patience))
    /\ epoch_phases' = Append(epoch_phases, "validate")
    /\ pc' = NextPhaseAfterValidate
    /\ batch' = 0
    /\ UNCHANGED <<scriptvars, cfgvars, metricvars, train_loss_scores, test_loss_scores,
                   test_variance, ckptvars, epoch, weights, model_calls,
                   epoch_batches, cleanups, tape_loss, saved_weights,
                   covariance_resets>>

\* one iteration of `for x, y in self.test_ds`
TestBatch ==
    /\ pc = "test"
    /\ batch < test_ds.batches
    /\ \E loss \in loss_fn.range["test"] :
         /\ test_loss_metric' = UpdateState(test_loss_metric, loss)
         /\ epoch_batches' = [epoch_batches EXCEPT !["test"] = Append(@, loss)]
    /\ model_calls' = TestCalls
    /\ batch' = batch + 1
    /\ UNCHANGED <<scriptvars, cfgvars, train_loss_metric, valid_loss_metric, scorevars,
                   bestvars, ckptvars, pc, epoch, stop_training, weights, cleanups,
                   tape_loss, saved_weights, covariance_resets, epoch_phases>>

TracksVarianceFromTwo(n) == n > 1

\* if len(batch_variances) > 0 (every batch appended one entry)
TracksVariance(n) == n > 0

\* after the loop: track the variance (only when a batch was seen) and the loss
TestEnd ==
    /\ pc = "test"
    /\ batch = test_ds.batches
    /\ test_variance' = IF TracksVariance(batch)
                        THEN Append(test_variance, epoch) ELSE test_variance
    /\ test_loss_scores' = Append(test_loss_scores, Result(test_loss_metric))
    /\ epoch_phases' = Append(epoch_phases, "test")
    /\ pc' = "cleanup"
    /\ batch' = 0
    /\ UNCHANGED <<scriptvars, cfgvars, metricvars, train_loss_scores, valid_loss_scores,
                   bestvars, ckptvars, epoch, stop_training, weights,
                   model_calls, epoch_batches, cleanups, tape_loss, saved_weights,
                   covariance_resets>>

ResetTrain(m) == NewMean
KeepValid(m) == m

ResetValid(m) == NewMean
ResetTest(m) == NewMean

WeightsRestoredAtBreak(w, saved, best) == IF best >= 1 THEN saved[best] ELSE w

\* if stop_training: cleanup(); break -- the loop is left with the model as
\* the last training step made it, no checkpoint is read back
WeightsAtBreak(w, saved, best) == w

\* cleanup(), on either branch of `if stop_training`, then break or continue
Cleanup ==
    /\ pc = "cleanup"
    /\ train_loss_metric' = ResetTrain(train_loss_metric)
    /\ valid_loss_metric' = ResetValid(valid_loss_metric)
    /\ test_loss_metric' = ResetTest(test_loss_metric)
    /\ cleanups' = cleanups + 1
    /\ epoch_phases' = Append(epoch_phases, "cleanup")
    /\ weights' = IF stop_training
                  THEN WeightsAtBreak(weights, saved_weights, best_ep)
                  ELSE weights
    /\ pc' = IF stop_training THEN "done" ELSE "loop"
    /\ UNCHANGED <<scriptvars, cfgvars, scorevars, bestvars, ckptvars, epoch, batch,
                   stop_training, model_calls, epoch_batches,
                   tape_loss, saved_weights, covariance_resets>>

Next ==
    \/ LoopEnter
    \/ LoopExit
    \/ TrainBatch
    \/ TrainEnd
    \/ ValidateBatch
    \/ ValidateEnd
    \/ TestBatch
    \/ TestEnd
    \/ Cleanup

Spec == Init /\ [][Next]_vars

\* the interpreter runs train_and_evaluate to its end: it never pauses forever
FairSpec == Spec /\ WF_vars(Next)

\* ======================================== Part 2: BaseDataLoader.prepare_data
\* sklearn's train_test_split on n rows with train_size = num/den: the train
\* part is floor(n * num / den), the test part the complement; it raises
\* when the train part would be empty
SplitByTrainSize(n, num, den) ==
    LET n_train == (n * num) \div den
    IN  [ok |-> n_train > 0, train |-> n_train, test |-> n - n_train]

\* the same with test_size = num/den: the test part is ceil(n * num / den)
SplitByTestSize(n, num, den) ==
    LET n_test == (n * num + den - 1) \div den
    IN  [ok |-> n - n_test > 0, train |-> n - n_test, test |-> n_test]

\* the split that yields X_train and X_rem
FirstSplit(n, size) == SplitByTrainSize(n, size, 10)

\* the split of X_rem into X_valid and X_test
SecondSplit(n) == SplitByTestSize(n, 1, 2)

\* prepare_data(test_size) is called on a loader holding X rows
InitPrepare ==
    /\ prep_pc = "split_train"
    /\ X \in 0..MaxRows
    /\ test_size \in 1..9
    /\ X_train = 0 /\ X_rem = 0 /\ X_valid = 0 /\ X_test = 0
    /\ TrainerIdle /\ SotaIdle /\ TuneIdle /\ MtIdle

PrepSplitTrain ==
    /\ prep_pc = "split_train"
    /\ LET r == FirstSplit(X, test_size)
       IN  IF r.ok
           THEN /\ X_train' = r.train
                /\ X_rem' = r.test
                /\ prep_pc' = "split_rest"
           ELSE /\ prep_pc' = "raised"
                /\ UNCHANGED <<X_train, X_rem>>
    /\ UNCHANGED <<X, test_size, X_valid, X_test, trainervars, mtvars, sotavars, tunevars>>

PrepSplitRest ==
    /\ prep_pc = "split_rest"
    /\ LET r == SecondSplit(X_rem)
       IN  IF r.ok
           THEN /\ X_valid' = r.train
                /\ X_test' = r.test
                /\ prep_pc' = "transform"
           ELSE /\ prep_pc' = "raised"
                /\ UNCHANGED <<X_valid, X_test>>
    /\ UNCHANGED <<X, test_size, X_train, X_rem, trainervars, mtvars, sotavars, tunevars>>

\* fit the preprocessor on X_train, transform the three parts (row counts are
\* kept), return
PrepTransformReturn ==
    /\ prep_pc = "transform"
    /\ prep_pc' = "returned"
    /\ UNCHANGED <<X, test_size, X_train, X_rem, X_valid, X_test,
                   trainervars, mtvars, sotavars, tunevars>>

NextPrepare == PrepSplitTrain \/ PrepSplitRest \/ PrepTransformReturn

SpecPrepare == InitPrepare /\ [][NextPrepare]_vars

\* ===================================== Part 3: train_sota_std_models __main__
DATASETS == <<"WHAS500", "SEER", "GBSG2", "FLCHAIN", "SUPPORT", "METABRIC">>
MODEL_NAMES == <<"Cox", "CoxNet", "RSF">>

TrainedModelsNoRsf == <<"cox_model", "coxnet_model">>

\* trained_models = [cox_model, coxnet_model, rsf_model]
TrainedModels == <<"cox_model", "coxnet_model", "rsf_model">>

Min(a, b) == IF a <= b THEN a ELSE b

\* the number of tuples zip(trained_models, MODEL_NAMES, train_times) yields
\* (train_times has three entries)
ZipLen == Min(Len(trained_models), Min(Len(MODEL_NAMES), 3))

InitSota ==
    /\ sota_pc = "datasets"
    /\ ds_idx = 0 /\ zip_idx = 0 /\ trained_models = <<>>
    /\ sota_loss = "unset" /\ results = <<>> /\ csv = <<>>
    /\ TrainerIdle /\ PrepIdle /\ TuneIdle /\ MtIdle

\* for dataset_name in DATASETS: load, split, scale, read configs, make models
SotaNextDataset ==
    /\ sota_pc = "datasets"
    /\ ds_idx < Len(DATASETS)
    /\ ds_idx' = ds_idx + 1
    /\ trained_models' = <<>>
    /\ sota_pc' = "fit_cox"
    /\ UNCHANGED <<zip_idx, sota_loss, results, csv, trainervars, mtvars, prepvars, tunevars>>

SotaFitCox ==
    /\ sota_pc = "fit_cox"
    /\ sota_pc' = "fit_coxnet"
    /\ UNCHANGED <<ds_idx, zip_idx, trained_models, sota_loss, results, csv,
                   trainervars, mtvars, prepvars, tunevars>>

SotaFitCoxNet ==
    /\ sota_pc = "fit_coxnet"
    /\ sota_pc' = "fit_rsf"
    /\ UNCHANGED <<ds_idx, zip_idx, trained_models, sota_loss, results, csv,
                   trainervars, mtvars, prepvars, tunevars>>

\* fit RSF, collect the trained models, prepare the scoring inputs
SotaFitRsf ==
    /\ sota_pc = "fit_rsf"
    /\ trained_models' = TrainedModels
    /\ zip_idx' = 0
    /\ sota_pc' = "models"
    /\ UNCHANGED <<ds_idx, sota_loss, results, csv, trainervars, mtvars, prepvars, tunevars>>

\* for model, model_name, train_time in zip(...): next tuple
SotaNextModel ==
    /\ sota_pc = "models"
    /\ zip_idx < ZipLen
    /\ zip_idx' = zip_idx + 1
    /\ sota_pc' = "predict"
    /\ UNCHANGED <<ds_idx, trained_models, sota_loss, results, csv,
                   trainervars, mtvars, prepvars, tunevars>>

\* # Make predictions
SotaPredict ==
    /\ sota_pc = "predict"
    /\ sota_pc' = "loss"
    /\ UNCHANGED <<ds_idx, zip_idx, trained_models, sota_loss, results, csv,
                   trainervars, mtvars, prepvars, tunevars>>

\* the Cox loss for Cox and CoxNet, nan for every other model
SotaComputeLoss ==
    /\ sota_pc = "loss"
    /\ sota_loss' = IF MODEL_NAMES[zip_idx] \in {"Cox", "CoxNet"} THEN "value" ELSE "nan"
    /\ sota_pc' = "scores"
    /\ UNCHANGED <<ds_idx, zip_idx, trained_models, results, csv,
                   trainervars, mtvars, prepvars, tunevars>>

\* CI, CTD and IBS
SotaComputeScores ==
    /\ sota_pc = "scores"
    /\ sota_pc' = "save"
    /\ UNCHANGED <<ds_idx, zip_idx, trained_models, sota_loss, results, csv,
                   trainervars, mtvars, prepvars, tunevars>>

\* results = pd.concat([results, res_df], axis=0); joblib.dump(model, path)
SotaSaveRow ==
    /\ sota_pc = "save"
    /\ results' = Append(results, [DatasetName |-> DATASETS[ds_idx],
                                   ModelName |-> MODEL_NAMES[zip_idx],
                                   TestLoss |-> sota_loss])
    /\ sota_pc' = "models"
    /\ UNCHANGED <<ds_idx, zip_idx, trained_models, sota_loss, csv,
                   trainervars, mtvars, prepvars, tunevars>>

\* zip exhausted: back to the dataset loop
SotaModelsDone ==
    /\ sota_pc = "models"
    /\ zip_idx = ZipLen
    /\ sota_pc' = "datasets"
    /\ UNCHANGED <<ds_idx, zip_idx, trained_models, sota_loss, results, csv,
                   trainervars, mtvars, prepvars, tunevars>>

\* results.to_csv(...)
SotaWriteCsv ==
    /\ sota_pc = "datasets"
    /\ ds_idx = Len(DATASETS)
    /\ csv' = results
    /\ sota_pc' = "exit"
    /\ UNCHANGED <<ds_idx, zip_idx, trained_models, sota_loss, results,
                   trainervars, mtvars, prepvars, tunevars>>

NextSota ==
    \/ SotaNextDataset
    \/ SotaFitCox
    \/ SotaFitCoxNet
    \/ SotaFitRsf
    \/ SotaNextModel
    \/ SotaPredict
    \/ SotaComputeLoss
    \/ SotaComputeScores
    \/ SotaSaveRow
    \/ SotaModelsDone
    \/ SotaWriteCsv

SpecSota == InitSota /\ [][NextSota]_vars

\* ============================================ Part 4: the tuning scripts
\* tune_mlp_model, tune_cox_model, tune_dcm_model, tune_sota_models: main,
\* the sweep agent, train_model
N_RUNS == 10
N_EPOCHS == 10
N_SPLITS == 5

Scripts == {"tune_mlp_model", "tune_cox_model", "tune_dcm_model", "tune_sota_models"}

\* the scripts whose train_model cross-validates over N_SPLITS folds
FoldScripts == {"tune_mlp_model", "tune_cox_model", "tune_dcm_model"}

\* the --dataset values the docstring of tune_mlp_model names
DocDatasets == {"SUPPORT", "NHANES", "GBSG2", "WHAS500", "FLCHAIN", "METABRIC"}

\* the classes tools/data_loader.py defines
DataLoaderClasses == {"SupportDataLoader", "NhanesDataLoader", "AidsDataLoader",
                      "CancerDataLoader", "VeteransDataLoader"}

\* tune_mlp_model's if/elif chain: the loader class named for a dataset,
\* "none" for the else branch
LoaderFor(d) ==
    CASE d = "SUPPORT" -> "SupportDataLoader"
      [] d = "GBSG2" -> "GbsgDataLoader"
      [] d = "WHAS500" -> "WhasDataLoader"
      [] d = "FLCHAIN" -> "FlchainDataLoader"
      [] d = "METABRIC" -> "MetabricDataLoader"
      [] d = "SEER" -> "SeerDataLoader"
      [] OTHER -> "none"

\* the same chain as tune_cox_model spells it out
CoxLoaderFor(d) ==
    CASE d = "SUPPORT" -> "SupportDataLoader"
      [] d = "GBSG2" -> "GbsgDataLoader"
      [] d = "WHAS500" -> "WhasDataLoader"
      [] d = "FLCHAIN" -> "FlchainDataLoader"
      [] d = "METABRIC" -> "MetabricDataLoader"
      [] d = "SEER" -> "SeerDataLoader"
      [] OTHER -> "none"

\* ... as tune_dcm_model spells it out
DcmLoaderFor(d) ==
    CASE d = "SUPPORT" -> "SupportDataLoader"
      [] d = "GBSG2" -> "GbsgDataLoader"
      [] d = "WHAS500" -> "WhasDataLoader"
      [] d = "FLCHAIN" -> "FlchainDataLoader"
      [] d = "METABRIC" -> "MetabricDataLoader"
      [] d = "SEER" -> "SeerDataLoader"
      [] OTHER -> "none"

SotaLoaderForDefaultSupport(d) ==
    CASE d = "GBSG2" -> "GbsgDataLoader"
      [] d = "WHAS500" -> "WhasDataLoader"
      [] d = "FLCHAIN" -> "FlchainDataLoader"
      [] d = "METABRIC" -> "MetabricDataLoader"
      [] d = "SEER" -> "SeerDataLoader"
      [] OTHER -> "SupportDataLoader"

\* ... as tune_sota_models spells it out
SotaLoaderFor(d) ==
    CASE d = "SUPPORT" -> "SupportDataLoader"
      [] d = "GBSG2" -> "GbsgDataLoader"
      [] d = "WHAS500" -> "WhasDataLoader"
      [] d = "FLCHAIN" -> "FlchainDataLoader"
      [] d = "METABRIC" -> "MetabricDataLoader"
      [] d = "SEER" -> "SeerDataLoader"
      [] OTHER -> "none"

\* the chain of the script that runs
ScriptLoaderFor(sc, d) ==
    CASE sc = "tune_mlp_model" -> LoaderFor(d)
      [] sc = "tune_cox_model" -> CoxLoaderFor(d)
      [] sc = "tune_dcm_model" -> DcmLoaderFor(d)
      [] sc = "tune_sota_models" -> SotaLoaderFor(d)

\* whether y, as the loader class builds it, can be indexed by field name
StructuredY(cls) == cls \in {"AidsDataLoader", "CancerDataLoader", "VeteransDataLoader"}

\* the keyword arguments train_model passes to model_trainer.Trainer
TrainerKwargs == {"model", "model_type", "train_dataset", "valid_dataset",
                  "test_dataset", "optimizer", "loss_function", "num_epochs",
                  "event_times"}

\* tune_sota_models: the --model values with a branch in main's sweep-config
\* chain, in train_model's default-parameter chain and in its
\* model-construction chain
SweepConfigModels == {"cox", "coxboost", "coxnet", "dcm", "dcph", "dsm", "rsf",
                      "baycox", "baymtlr"}
DefaultParamsModels == {"cox", "coxboost", "coxnet", "dcm", "dcph", "dsm", "rsf",
                        "baycox", "baymtlr"}
BuildModelsNoBaymtlr == {"cox", "coxboost", "coxnet", "dcm", "dcph", "dsm", "rsf",
                         "baycox"}

BuildModels == {"cox", "coxboost", "coxnet", "dcm", "dcph", "dsm", "rsf",
                "baycox", "baymtlr"}

\* the branches that index y_train by field name and X_train, an ndarray by
\* then, by column name
BnnModels == {"baycox", "baymtlr"}

InitTune ==
    /\ tune_pc = "main"
    /\ script \in Scripts
    /\ IF script = "tune_sota_models"
       THEN tune_model_name \in SweepConfigModels \cup {"mlp"}
       ELSE tune_model_name = "none"
    /\ dataset \in DocDatasets \cup {"SEER", "OTHER"}
    /\ ncols \in 1..MaxCols
    /\ run = 0 /\ dl = "none" /\ exc = "none" /\ fold = 0 /\ logged = 0
    /\ sweeps = 0 /\ loaded = 0 /\ built = 0
    /\ TrainerIdle /\ PrepIdle /\ SotaIdle /\ MtIdle

\* main: parse the arguments, (tune_sota_models: pick the sweep config for
\* the model or raise), create the sweep, start the agent
TuneMain ==
    /\ tune_pc = "main"
    /\ IF script = "tune_sota_models" /\ tune_model_name \notin SweepConfigModels
       THEN /\ exc' = "ValueError: Model not found"
            /\ tune_pc' = "exit"
            /\ sweeps' = sweeps
       ELSE /\ sweeps' = sweeps + 1
            /\ tune_pc' = "agent"
            /\ exc' = exc
    /\ UNCHANGED <<dataset, ncols, run, dl, fold, logged, script, tune_model_name,
                   loaded, built, trainervars, mtvars, prepvars, sotavars>>

\* the agent calls train_model (at most N_RUNS times)
AgentRun ==
    /\ tune_pc = "agent"
    /\ run < N_RUNS
    /\ run' = run + 1
    /\ dl' = "none"
    /\ exc' = "none"
    /\ fold' = 0
    /\ tune_pc' = IF script = "tune_sota_models" THEN "defaults" ELSE "load_data"
    /\ UNCHANGED <<dataset, ncols, logged, script, tune_model_name, sweeps, loaded,
                   built, trainervars, mtvars, prepvars, sotavars>>

\* the agent returns: after N_RUNS runs, or giving up after a failed run
AgentExit ==
    /\ tune_pc = "agent"
    /\ run = N_RUNS \/ exc # "none"
    /\ tune_pc' = "exit"
    /\ UNCHANGED <<dataset, ncols, run, dl, exc, fold, logged, script,
                   tune_model_name, sweeps, loaded, built,
                   trainervars, mtvars, prepvars, sotavars>>

\* tune_sota_models.train_model: the default parameters of the model, then
\* wandb.init
TuneDefaults ==
    /\ tune_pc = "defaults"
    /\ IF tune_model_name \in DefaultParamsModels
       THEN tune_pc' = "load_data" /\ exc' = exc
       ELSE tune_pc' = "agent" /\ exc' = "ValueError: Model not found"
    /\ UNCHANGED <<dataset, ncols, run, dl, fold, logged, script, tune_model_name,
                   sweeps, loaded, built, trainervars, mtvars, prepvars, sotavars>>

\* # Load data
TuneLoadData ==
    /\ tune_pc = "load_data"
    /\ LET cls == ScriptLoaderFor(script, dataset)
       IN  IF cls = "none"
           THEN /\ exc' = "ValueError: Dataset not found"
                /\ tune_pc' = "agent"
                /\ dl' = dl /\ loaded' = loaded
           ELSE IF cls \notin DataLoaderClasses
           THEN /\ exc' = "AttributeError"
                /\ tune_pc' = "agent"
                /\ dl' = dl /\ loaded' = loaded
           ELSE /\ dl' = cls
                /\ loaded' = loaded + 1
                /\ tune_pc' = "get_features"
                /\ exc' = exc
    /\ UNCHANGED <<dataset, ncols, run, fold, logged, script, tune_model_name,
                   sweeps, built, trainervars, mtvars, prepvars, sotavars>>

\* num_features, cat_features = dl.get_features(): get_features returns the
\* columns of X, which unpack into two names only when there are two
TuneGetFeatures ==
    /\ tune_pc = "get_features"
    /\ IF ncols = 2
       THEN /\ tune_pc' = IF script \in FoldScripts THEN "folds" ELSE "build"
            /\ exc' = exc
       ELSE /\ exc' = "ValueError: unpack"
            /\ tune_pc' = "agent"
    /\ UNCHANGED <<dataset, ncols, run, dl, fold, logged, script, tune_model_name,
                   sweeps, loaded, built, trainervars, mtvars, prepvars, sotavars>>

\* one iteration of the KFold loop; after the last one the mean is logged.
\* tune_mlp_model indexes ti_y by field name before it makes the model and
\* constructs the Trainer; tune_cox_model and tune_dcm_model make and fit the
\* model and then index y by field name.
TuneFold ==
    /\ tune_pc = "folds"
    /\ built' = IF script = "tune_mlp_model" /\ ~StructuredY(dl) THEN built ELSE built + 1
    /\ IF ~StructuredY(dl)
       THEN /\ exc' = "IndexError"
            /\ tune_pc' = "agent"
            /\ UNCHANGED <<fold, logged>>
       ELSE IF script = "tune_mlp_model" /\ ~(TrainerKwargs \subseteq TrainerParams)
       THEN /\ exc' = "TypeError"
            /\ tune_pc' = "agent"
            /\ UNCHANGED <<fold, logged>>
       ELSE /\ fold' = fold + 1
            /\ exc' = exc
            /\ IF fold + 1 = N_SPLITS
               THEN logged' = logged + 1 /\ tune_pc' = "agent"
               ELSE logged' = logged /\ tune_pc' = "folds"
    /\ UNCHANGED <<dataset, ncols, run, dl, script, tune_model_name, sweeps, loaded,
                   trainervars, mtvars, prepvars, sotavars>>

\* tune_sota_models.train_model: split, scale, then the model-construction
\* chain (make and fit the model)
TuneBuild ==
    /\ tune_pc = "build"
    /\ IF tune_model_name \notin BuildModels
       THEN /\ exc' = "ValueError: Model not found"
            /\ tune_pc' = "agent"
            /\ built' = built
       ELSE IF tune_model_name \in BnnModels
       THEN /\ exc' = "IndexError"
            /\ tune_pc' = "agent"
            /\ built' = built
       ELSE /\ built' = built + 1
            /\ tune_pc' = "log"
            /\ exc' = exc
    /\ UNCHANGED <<dataset, ncols, run, dl, fold, logged, script, tune_model_name,
                   sweeps, loaded, trainervars, mtvars, prepvars, sotavars>>

\* tune_sota_models.train_model: survival function, concordance, wandb.log
TuneLog ==
    /\ tune_pc = "log"
    /\ logged' = logged + 1
    /\ tune_pc' = "agent"
    /\ UNCHANGED <<dataset, ncols, run, dl, exc, fold, script, tune_model_name,
                   sweeps, loaded, built, trainervars, mtvars, prepvars, sotavars>>

NextTune ==
    \/ TuneMain
    \/ AgentRun
    \/ AgentExit
    \/ TuneDefaults
    \/ TuneLoadData
    \/ TuneGetFeatures
    \/ TuneFold
    \/ TuneBuild
    \/ TuneLog

SpecTune == InitTune /\ [][NextTune]_vars

\* ============================================= Part 5: model_trainer.Trainer
\* the two accumulators train / validate / test update, and the accumulator
\* each score list is appended from
MtMetricsOf(phase) ==
    CASE phase = "train" -> {"train_loss_metric", "train_cindex_metric"}
      [] phase = "validate" -> {"valid_loss_metric", "valid_cindex_metric"}
      [] phase = "test" -> {"test_loss_metric", "test_cindex_metric"}

MtScoresOf(phase) ==
    CASE phase = "train" -> {"train_loss_scores", "train_ci_scores"}
      [] phase = "validate" -> {"valid_loss_scores", "valid_ci_scores"}
      [] phase = "test" -> {"test_loss_scores", "test_ci_scores"}

MtMetricFor(list) ==
    CASE list = "train_loss_scores" -> "train_loss_metric"
      [] list = "train_ci_scores" -> "train_cindex_metric"
      [] list = "valid_loss_scores" -> "valid_loss_metric"
      [] list = "valid_ci_scores" -> "valid_cindex_metric"
      [] list = "test_loss_scores" -> "test_loss_metric"
      [] list = "test_ci_scores" -> "test_cindex_metric"

\* a keyword call binds when every keyword is a parameter and every
\* parameter (none has a default) is given
Binds(kwargs, params) == kwargs \subseteq params /\ params \subseteq kwargs

\* a constructor call: one that names exactly __init__'s parameters, or the
\* call tune_mlp_model.train_model makes in each fold
InitMt ==
    /\ mt_pc = "construct"
    /\ \E n \in 0..MaxBatches :
         \/ /\ mt_kwargs = TrainerParams
            /\ mt_num_epochs \in 0..MaxEpochs
            /\ mt_train_ds = Dataset(n)
            /\ mt_valid_ds \in {None, Dataset(n)}
            /\ mt_test_ds \in {None, Dataset(n)}
         \/ /\ mt_kwargs = TrainerKwargs
            /\ mt_num_epochs = N_EPOCHS
            /\ mt_train_ds = Dataset(n)
            /\ mt_valid_ds = None
            /\ mt_test_ds = None
    /\ MtFields
    /\ TrainerIdle /\ PrepIdle /\ SotaIdle /\ TuneIdle

\* Trainer(...): the interpreter binds the arguments or raises TypeError
MtConstruct ==
    /\ mt_pc = "construct"
    /\ IF Binds(mt_kwargs, TrainerParams)
       THEN mt_pc' = "call" /\ mt_exc' = mt_exc
       ELSE mt_pc' = "raised" /\ mt_exc' = "TypeError"
    /\ UNCHANGED <<mt_kwargs, mt_num_epochs, mt_train_ds, mt_valid_ds, mt_test_ds,
                   mt_metrics, mt_scores, mt_epoch, mt_batch, mt_cleanups, mt_phases,
                   trainervars, prepvars, sotavars, tunevars>>

MtNextPhaseAfterTrain ==
    IF ~mt_valid_ds.none THEN "validate"
    ELSE IF ~mt_test_ds.none THEN "test" ELSE "cleanup"

MtNextPhaseAfterValidate == IF ~mt_test_ds.none THEN "test" ELSE "cleanup"

\* for _ in range(self.num_epochs): next iteration
MtLoopEnter ==
    /\ mt_pc \in {"call", "loop"}
    /\ mt_epoch < mt_num_epochs
    /\ mt_epoch' = mt_epoch + 1
    /\ mt_batch' = 0
    /\ mt_phases' = <<>>
    /\ mt_pc' = "train"
    /\ UNCHANGED <<mt_kwargs, mt_num_epochs, mt_train_ds, mt_valid_ds, mt_test_ds,
                   mt_metrics, mt_scores, mt_exc, mt_cleanups,
                   trainervars, prepvars, sotavars, tunevars>>

\* range exhausted: train_and_evaluate returns
MtLoopExit ==
    /\ mt_pc \in {"call", "loop"}
    /\ ~(mt_epoch < mt_num_epochs)
    /\ mt_pc' = "done"
    /\ UNCHANGED <<mt_kwargs, mt_num_epochs, mt_train_ds, mt_valid_ds, mt_test_ds,
                   mt_metrics, mt_scores, mt_epoch, mt_batch, mt_exc, mt_cleanups,
                   mt_phases, trainervars, prepvars, sotavars, tunevars>>

MtDataset(phase) ==
    CASE phase = "train" -> mt_train_ds
      [] phase = "validate" -> mt_valid_ds
      [] phase = "test" -> mt_test_ds

\* one iteration of the batch loop of train / validate / test: update_state
\* on the phase's loss and concordance accumulators
MtBatch(phase) ==
    /\ mt_pc = phase
    /\ mt_batch < MtDataset(phase).batches
    /\ mt_metrics' = [m \in MtMetricNames |->
                        IF m \in MtMetricsOf(phase) THEN mt_metrics[m] + 1
                        ELSE mt_metrics[m]]
    /\ mt_batch' = mt_batch + 1
    /\ UNCHANGED <<mt_pc, mt_kwargs, mt_num_epochs, mt_train_ds, mt_valid_ds,
                   mt_test_ds, mt_scores, mt_epoch, mt_exc, mt_cleanups, mt_phases,
                   trainervars, prepvars, sotavars, tunevars>>

\* after the batch loop: append result() of both accumulators to their lists
MtEnd(phase, next) ==
    /\ mt_pc = phase
    /\ mt_batch = MtDataset(phase).batches
    /\ mt_scores' = [l \in MtScoreNames |->
                       IF l \in MtScoresOf(phase)
                       THEN Append(mt_scores[l], mt_metrics[MtMetricFor(l)])
                       ELSE mt_scores[l]]
    /\ mt_phases' = Append(mt_phases, phase)
    /\ mt_pc' = next
    /\ mt_batch' = 0
    /\ UNCHANGED <<mt_kwargs, mt_num_epochs, mt_train_ds, mt_valid_ds, mt_test_ds,
                   mt_metrics, mt_epoch, mt_exc, mt_cleanups,
                   trainervars, prepvars, sotavars, tunevars>>

MtTrainBatch == MtBatch("train")
MtTrainEnd == MtEnd("train", MtNextPhaseAfterTrain)
MtValidateBatch == MtBatch("validate")
MtValidateEnd == MtEnd("validate", MtNextPhaseAfterValidate)
MtTestBatch == MtBatch("test")
MtTestEnd == MtEnd("test", "cleanup")

MtResetLossOnly(metrics) ==
    [m \in MtMetricNames |->
        IF m \in {"train_loss_metric", "valid_loss_metric", "test_loss_metric"}
        THEN 0 ELSE metrics[m]]

\* cleanup: reset_states on the six accumulators
MtReset(metrics) == [m \in MtMetricNames |-> 0]

MtCleanup ==
    /\ mt_pc = "cleanup"
    /\ mt_metrics' = MtReset(mt_metrics)
    /\ mt_cleanups' = mt_cleanups + 1
    /\ mt_phases' = Append(mt_phases, "cleanup")
    /\ mt_pc' = "loop"
    /\ UNCHANGED <<mt_kwargs, mt_num_epochs, mt_train_ds, mt_valid_ds, mt_test_ds,
                   mt_scores, mt_epoch, mt_batch, mt_exc,
                   trainervars, prepvars, sotavars, tunevars>>

NextMt ==
    \/ MtConstruct
    \/ MtLoopEnter
    \/ MtLoopExit
    \/ MtTrainBatch
    \/ MtTrainEnd
    \/ MtValidateBatch
    \/ MtValidateEnd
    \/ MtTestBatch
    \/ MtTestEnd
    \/ MtCleanup

SpecMt == InitMt /\ [][NextMt]_vars

\* =================================================================== claims
Trained == Len(train_loss_scores)

IsPrefix(s, t) == Len(s) <= Len(t) /\ \A i \in 1..Len(s) : s[i] = t[i]

KeptEpochs == {manager.kept[i].epoch : i \in 1..Len(manager.kept)}

AfterTrain == pc \in {"validate", "test", "cleanup", "loop", "done"}

\* The best validation loss and its epoch after the first k validated epochs,
\* defined from the recorded validation losses alone.
RECURSIVE RunBest(_)
RunBest(k) ==
    IF k = 0 THEN [nll |-> INF, ep |-> -1]
    ELSE LET prev == RunBest(k - 1)
         IN  IF Gt(prev.nll, valid_loss_scores[k])
             THEN [nll |-> valid_loss_scores[k], ep |-> k]
             ELSE prev

\* epoch e is one for which e - best_ep > patience
StopsAt(e) == e - RunBest(e).ep > patience

\* C1: with early_stop and a validation dataset, training stops right after
\* the first epoch e with e - best_ep > patience (best_ep the latest epoch
\* whose validation loss was strictly below best_val_nll): once such an epoch
\* is validated only its test and cleanup run and no later epoch is trained,
\* and a run that ends before num_epochs epochs ended at such an epoch.
C1_StopsAtFirstPatienceExcess ==
    (early_stop /\ ~valid_ds.none) =>
        /\ \A e \in 1..Len(valid_loss_scores) :
             StopsAt(e) => /\ Trained = e
                           /\ epoch = e
                           /\ pc \in {"test", "cleanup", "done"}
        /\ (pc = "done" /\ Trained < num_epochs) => StopsAt(Trained)
        /\ best_ep = RunBest(Len(valid_loss_scores)).ep
        /\ (pc = "done") => Len(valid_loss_scores) = Trained

C1_Witness ==
    /\ pc = "done" /\ early_stop /\ ~valid_ds.none
    /\ Trained < num_epochs /\ Trained >= 3
    /\ best_ep = 2 /\ patience = 0

\* C2: train_and_evaluate terminates, and never trains more than num_epochs
\* epochs, whatever the validation losses, early_stop and patience.
C2_TerminatesWithinNumEpochs ==
    /\ <>(pc = "done")
    /\ [](Trained <= num_epochs /\ epoch <= num_epochs)

C2_Witness ==
    /\ pc = "done" /\ Trained = num_epochs /\ num_epochs = MaxEpochs
    /\ early_stop /\ ~valid_ds.none

C4_ForwardPassesPerBatch ==
    model_calls # <<>> =>
        LET phase == model_calls[1].phase
            runs == CASE phase = "train" -> n_samples_train
                      [] phase = "valid" -> n_samples_valid
                      [] phase = "test" -> n_samples_test
        IN  Len(model_calls) = IF model_name \in McNames THEN runs ELSE 1

\* the mean of a sequence of batch losses
RECURSIVE SumOf(_)
SumOf(s) == IF s = <<>> THEN Fin(0) ELSE Add(s[1], SumOf(Tail(s)))

MeanOf(s) == IF s = <<>> THEN Fin(0) ELSE
    LET t == SumOf(s) IN IF t.k = "fin" THEN Frac(t.n, t.d * Len(s)) ELSE t

\* C5: the three loss accumulators are reset exactly once at the end of every
\* executed epoch, the early stopping epoch included, so every value appended
\* to the three score lists is the mean of that epoch's batch losses only.
C5_ScoresAreEpochMeans ==
    /\ pc \in {"loop", "done"} =>
         /\ cleanups = epoch
         /\ train_loss_metric = NewMean
         /\ valid_loss_metric = NewMean
         /\ test_loss_metric = NewMean
    /\ pc \in {"train", "validate", "test", "cleanup"} => cleanups = epoch - 1
    /\ (epoch >= 1 /\ Len(train_loss_scores) = epoch) =>
         train_loss_scores[epoch] = MeanOf(epoch_batches["train"])
    /\ (epoch >= 1 /\ Len(valid_loss_scores) = epoch) =>
         valid_loss_scores[epoch] = MeanOf(epoch_batches["valid"])
    /\ (epoch >= 1 /\ Len(test_loss_scores) = epoch) =>
         test_loss_scores[epoch] = MeanOf(epoch_batches["test"])

C5_Witness ==
    /\ pc = "done" /\ stop_training /\ epoch = 2
    /\ Len(epoch_batches["valid"]) = 2
    /\ Len(valid_loss_scores) = 2
    /\ valid_loss_scores[1] = Fin(0)
    /\ valid_loss_scores[2] = Frac(1, 2)

\* C6: after k executed epochs train_loss_scores has length k, and
\* valid_loss_scores / test_loss_scores have length k when their dataset is
\* given and 0 when it is None; the lists only grow by appending.
C6_ScoreListLengths ==
    /\ [](pc \in {"call", "loop", "done"} =>
            /\ Len(train_loss_scores) = epoch
            /\ Len(valid_loss_scores) = IF valid_ds.none THEN 0 ELSE epoch
            /\ Len(test_loss_scores) = IF test_ds.none THEN 0 ELSE epoch)
    /\ [][/\ IsPrefix(train_loss_scores, train_loss_scores')
          /\ IsPrefix(valid_loss_scores, valid_loss_scores')
          /\ IsPrefix(test_loss_scores, test_loss_scores')]_vars

C6_Witness ==
    /\ pc = "done" /\ epoch = 2 /\ valid_ds.none /\ ~test_ds.none
    /\ Len(train_loss_scores) = 2 /\ Len(valid_loss_scores) = 0
    /\ Len(test_loss_scores) = 2

\* C7: with early_stop False, or without a validation dataset, early stopping
\* never fires and exactly num_epochs epochs are trained.
C7_NoEarlyStopRunsAllEpochs ==
    (~early_stop \/ valid_ds.none) =>
        /\ ~stop_training
        /\ pc = "done" => (Trained = num_epochs /\ epoch = num_epochs)

C7_Witness ==
    /\ pc = "done" /\ ~early_stop /\ ~valid_ds.none
    /\ num_epochs = MaxEpochs /\ Trained = MaxEpochs
    /\ patience = 0
    /\ valid_loss_scores[1] = Fin(0) /\ valid_loss_scores[2] = Fin(1)

\* C8: train_model of tune_mlp_model selects a data loader for each dataset
\* its docstring names (SUPPORT, NHANES, GBSG2, WHAS500, FLCHAIN, METABRIC)
\* and does not raise "Dataset not found" for any of them.
C8_DocstringDatasetsAccepted ==
    (script = "tune_mlp_model" /\ dataset \in DocDatasets
       /\ tune_pc \in {"agent", "exit"}) =>
        exc # "ValueError: Dataset not found"

\* C9: prepare_data(test_size=f) returns a test part of f * rows (rounded to
\* a whole row), the other rows going to the train and validation parts.
C9_TestPartHasTestSize ==
    prep_pc = "returned" =>
        /\ X_test \in {(X * test_size) \div 10, (X * test_size + 9) \div 10}
        /\ X_train + X_valid + X_test = X

\* the (dataset, model) pair the i-th row of the table is to hold
ExpectedRow(i) ==
    [DatasetName |-> DATASETS[((i - 1) \div 3) + 1],
     ModelName |-> MODEL_NAMES[((i - 1) % 3) + 1]]

RowKey(r) == [DatasetName |-> r.DatasetName, ModelName |-> r.ModelName]

\* C10: the results table holds one row per (dataset, model) pair, in DATASETS
\* order then MODEL_NAMES order: 18 rows when the script ends, and the csv
\* written is that table.
C10_OneRowPerDatasetModel ==
    /\ \A i \in 1..Len(results) : RowKey(results[i]) = ExpectedRow(i)
    /\ sota_pc = "datasets" => Len(results) = 3 * ds_idx
    /\ sota_pc = "exit" =>
         /\ Len(csv) = 18
         /\ csv = results
         /\ \A i, j \in 1..18 : RowKey(csv[i]) = RowKey(csv[j]) => i = j
         /\ \A d \in 1..6, m \in 1..3 :
              \E i \in 1..18 : /\ csv[i].DatasetName = DATASETS[d]
                               /\ csv[i].ModelName = MODEL_NAMES[m]

C10_Witness ==
    /\ sota_pc = "exit"
    /\ Len(csv) = 18
    /\ csv[1].DatasetName = "WHAS500" /\ csv[1].ModelName = "Cox"
    /\ csv[18].DatasetName = "METABRIC" /\ csv[18].ModelName = "RSF"

\* C11: for the model names VI and VI-EPI every training step differentiates
\* and applies the Cox loss plus the KL-divergence term, whichever loss
\* function the Trainer holds, and feeds the Cox loss alone to the train metric.
C11_ViLossHasKlTerm ==
    (model_name \in {"VI", "VI-EPI"} /\ tape_loss # NoLoss) =>
        tape_loss = [loss |-> "cox+kl", metric |-> "cox"]

\* C12: for SNGP reset_covariance_matrix is called exactly once at the start
\* of every epoch, the first included, before any of that epoch's training
\* steps; for every other model name it is never called.
C12_SngpResetOncePerEpoch ==
    /\ [](IF model_name = "SNGP"
          THEN covariance_resets = epoch
          ELSE covariance_resets = 0)
    /\ [][covariance_resets' # covariance_resets =>
            /\ covariance_resets' = covariance_resets + 1
            /\ epoch' = epoch + 1
            /\ pc' = "train" /\ batch' = 0
            /\ Len(train_loss_scores') = epoch]_vars
    /\ [][weights' # weights => covariance_resets' = covariance_resets]_vars

C12_Witness ==
    /\ model_name = "SNGP" /\ pc = "done"
    /\ epoch = MaxEpochs /\ covariance_resets = MaxEpochs
    /\ weights = MaxEpochs

\* the methods one epoch of train_and_evaluate is to run, in order
ExpectedPhases ==
    <<"train">> \o (IF valid_ds.none THEN <<>> ELSE <<"validate">>)
                \o (IF test_ds.none THEN <<>> ELSE <<"test">>)
                \o <<"cleanup">>

\* C13: every executed epoch runs train, validate (with a validation dataset),
\* test (with a test dataset), cleanup, in this order and cleanup exactly
\* once; the epoch on which early stopping fires still runs its test and its
\* cleanup before the loop exits.
C13_EpochPhaseOrder ==
    /\ IsPrefix(epoch_phases, ExpectedPhases)
    /\ (pc \in {"loop", "done"} /\ epoch >= 1) =>
         /\ epoch_phases = ExpectedPhases
         /\ cleanups = epoch
    /\ pc \in {"train", "validate", "test", "cleanup"} =>
         /\ epoch_phases # ExpectedPhases
         /\ cleanups = epoch - 1
    /\ stop_training =>
         /\ pc \in {"test", "cleanup", "done"}
         /\ pc = "done" => Len(test_loss_scores) = IF test_ds.none THEN 0 ELSE epoch

C13_Witness ==
    /\ pc = "done" /\ stop_training /\ epoch = 2 /\ num_epochs > 2
    /\ epoch_phases = <<"train", "validate", "test", "cleanup">>
    /\ cleanups = 2

\* a >= b in float arithmetic
Ge(a, b) == Gt(a, b) \/ (a = b /\ a.k # "nan")

\* the validated epochs whose loss is strictly below +infinity
BelowInf == {i \in 1..Len(valid_loss_scores) : Gt(INF, valid_loss_scores[i])}

\* best_val_nll does not increase and best_ep does not decrease in any step
BestIsMonotone ==
    /\ ~Gt(best_val_nll', best_val_nll) /\ best_val_nll'.k # "nan"
    /\ best_ep' >= best_ep

\* C14 as stated: with early_stop, after every validate call best_val_nll is
\* the minimum validation loss seen so far and best_ep the earliest epoch that
\* attained it; best_val_nll never increases, best_ep never decreases and
\* never exceeds the current epoch.
C14_BestIsMinimumSeen ==
    /\ []((early_stop /\ Len(valid_loss_scores) >= 1) =>
            /\ \A i \in 1..Len(valid_loss_scores) : Ge(valid_loss_scores[i], best_val_nll)
            /\ best_ep \in 1..Len(valid_loss_scores)
            /\ valid_loss_scores[best_ep] = best_val_nll
            /\ \A i \in 1..(best_ep - 1) : valid_loss_scores[i] # best_val_nll
            /\ best_ep <= epoch)
    /\ [][BestIsMonotone]_vars

\* C14 amended: the minimum is taken over the losses strictly below +infinity;
\* while there is none best_val_nll is +infinity and best_ep is -1.
C14_BestIsMinimumBelowInf ==
    /\ [](early_stop =>
            /\ BelowInf = {} => (best_val_nll = INF /\ best_ep = -1)
            /\ BelowInf # {} =>
                 /\ best_ep \in BelowInf
                 /\ valid_loss_scores[best_ep] = best_val_nll
                 /\ \A i \in BelowInf : Ge(valid_loss_scores[i], best_val_nll)
                 /\ \A i \in BelowInf : i < best_ep => valid_loss_scores[i] # best_val_nll
            /\ best_ep <= epoch)
    /\ [][BestIsMonotone]_vars

C14_Witness ==
    /\ early_stop /\ pc = "done" /\ Len(valid_loss_scores) = 4
    /\ valid_loss_scores[1] = NAN /\ valid_loss_scores[2] = Fin(1)
    /\ valid_loss_scores[3] = Fin(0) /\ valid_loss_scores[4] = Fin(0)
    /\ best_ep = 3 /\ best_val_nll = Fin(0)

\* every validation loss recorded so far is a finite number
AllFinite == \A i \in 1..Len(valid_loss_scores) : valid_loss_scores[i].k = "fin"

\* C15: with early_stop, patience >= 0 and finite validation losses, at least
\* min(num_epochs, patience + 2) epochs are trained, and early stopping fires
\* at an epoch e only if e = best_ep + patience + 1: the patience + 1 epochs
\* after the best epoch brought no strict improvement.
C15_StopsPatiencePlusOneAfterBest ==
    (early_stop /\ patience >= 0 /\ AllFinite) =>
        /\ pc = "done" => Trained >= Min(num_epochs, patience + 2)
        /\ stop_training =>
             /\ best_ep >= 1
             /\ epoch = best_ep + patience + 1
             /\ \A i \in (best_ep + 1)..epoch :
                  ~Gt(valid_loss_scores[best_ep], valid_loss_scores[i])
             /\ \A i \in 1..(best_ep - 1) :
                  Gt(valid_loss_scores[i], valid_loss_scores[best_ep])

C15_Witness ==
    /\ early_stop /\ patience = 1 /\ AllFinite /\ pc = "done" /\ stop_training
    /\ best_ep = 2 /\ epoch = 4 /\ Trained = 4
    /\ valid_loss_scores[3] = Fin(0) /\ valid_loss_scores[4] = Fin(1)

Max(a, b) == IF a >= b THEN a ELSE b

\* C16: with early_stop and a validation loss that is never strictly below
\* +infinity (NaN or infinite in every epoch), best_ep stays at -1 and early
\* stopping fires after epoch max(1, patience), the first epoch e >= 1 with
\* e + 1 > patience, and after no other.
C16_NoImprovementStopsAtPatience ==
    (early_stop /\ ~valid_ds.none /\ BelowInf = {}) =>
        /\ best_ep = -1 /\ best_val_nll = INF
        /\ stop_training <=> Len(valid_loss_scores) >= Max(1, patience)
        /\ stop_training => (epoch = Max(1, patience) /\ epoch + 1 > patience)
        /\ pc = "done" => Trained = Min(num_epochs, Max(1, patience))

C16_Witness ==
    /\ early_stop /\ patience = 2 /\ pc = "done" /\ stop_training
    /\ num_epochs > 2 /\ epoch = 2 /\ best_ep = -1
    /\ valid_loss_scores = <<NAN, INF>>

C18_ReturnsLastEpochWeights ==
    /\ [](pc = "done" =>
            /\ Trained = epoch
            /\ weights = saved_weights[Trained]
            /\ (stop_training /\ best_ep >= 1 /\ best_ep < epoch
                  /\ train_ds.batches > 0) =>
                 weights # saved_weights[best_ep])
    /\ [][weights' # weights =>
            \A i \in 1..Len(saved_weights) : weights' # saved_weights[i]]_vars

C18_Witness ==
    /\ pc = "done" /\ stop_training /\ best_ep = 1 /\ epoch = 3
    /\ train_ds.batches = 1 /\ weights = 3 /\ saved_weights = <<1, 2, 3>>

\* C19 as stated: with a test dataset, test_variance and test_loss_scores
\* have the same length after every epoch, for every model name and every
\* test dataset, one that yields no batches included.
C19_VarianceLengthEqualsLossLength ==
    ~test_ds.none => Len(test_variance) = Len(test_loss_scores)

\* C19 amended: the lengths agree for a test dataset that yields at least one
\* batch; for one that yields none test_variance stays empty while
\* test_loss_scores gets one entry per tested epoch.
C19_VarianceLengthUnlessEmpty ==
    ~test_ds.none =>
        /\ pc \in {"cleanup", "loop", "done"} => Len(test_loss_scores) = epoch
        /\ test_ds.batches > 0 =>
             /\ Len(test_variance) = Len(test_loss_scores)
             /\ \A i \in 1..Len(test_variance) : test_variance[i] = i
        /\ test_ds.batches = 0 => test_variance = <<>>

C19_Witness ==
    /\ pc = "done" /\ ~test_ds.none /\ test_ds.batches = 0 /\ epoch = 2
    /\ test_variance = <<>> /\ test_loss_scores = <<Fin(0), Fin(0)>>

\* the forward passes of the batch processed last whose result goes into the
\* stacked predictions
Contributing == {i \in 1..Len(model_calls) : model_calls[i].out # "unused"}

\* C20: train, validate and test split the Monte Carlo model names the same
\* way: for MLP-ALEA, VI and MCD every forward pass contributes a draw from
\* the output distribution, for VI-EPI and MCD-EPI the output itself; the
\* model is called with training=True in train and nowhere else.
C20_SamePartitionInEveryPhase ==
    /\ ValidMcNames = McNames /\ TestMcNames = McNames
    /\ ValidSampleNames = McSampleNames /\ TestSampleNames = McSampleNames
    /\ model_calls # <<>> =>
         /\ \A i \in 1..Len(model_calls) :
              model_calls[i].training = (model_calls[i].phase = "train")
         /\ Contributing # {}
         /\ model_name \in {"MLP-ALEA", "VI", "MCD"} =>
              \A i \in Contributing : model_calls[i].out = "sample"
         /\ model_name \in {"VI-EPI", "MCD-EPI"} =>
              \A i \in Contributing : model_calls[i].out = "output"
    /\ pc \in {"validate", "test"} =>
         \A i \in 1..Len(model_calls) :
             model_calls[i].training <=> model_calls[i].phase = "train"

C20_Witness ==
    /\ model_name = "VI-EPI" /\ ~IsCoxPHLoss /\ pc = "validate" /\ batch = 1
    /\ n_samples_valid = 2
    /\ model_calls = <<Call("valid", FALSE, "output"), Call("valid", FALSE, "output"),
                       Call("valid", FALSE, "unused")>>

\* the methods one epoch of model_trainer's train_and_evaluate is to run
MtExpectedPhases ==
    <<"train">> \o (IF mt_valid_ds.none THEN <<>> ELSE <<"validate">>)
                \o (IF mt_test_ds.none THEN <<>> ELSE <<"test">>)
                \o <<"cleanup">>

\* the length the two score lists of a phase are to have after k epochs
MtExpectedLen(phase, k) == IF MtDataset(phase).none THEN 0 ELSE k

\* C21: model_trainer's train_and_evaluate runs exactly num_epochs epochs and
\* never leaves the loop early; each epoch runs train, validate (with a
\* validation dataset), test (with a test dataset) and cleanup in this order;
\* cleanup resets all six accumulators; after k epochs each loss list and its
\* concordance list have the same length: k for train, k or 0 for validation
\* and test.
C21_MtRunsNumEpochs ==
    /\ mt_epoch <= mt_num_epochs
    /\ mt_pc = "done" => mt_epoch = mt_num_epochs
    /\ IsPrefix(mt_phases, MtExpectedPhases)
    /\ (mt_pc \in {"loop", "done"} /\ mt_epoch >= 1) => mt_phases = MtExpectedPhases
    /\ mt_pc \in {"call", "loop", "done"} =>
         /\ mt_cleanups = mt_epoch
         /\ \A m \in MtMetricNames : mt_metrics[m] = 0
         /\ \A ph \in {"train", "validate", "test"} : \A l \in MtScoresOf(ph) :
              Len(mt_scores[l]) = MtExpectedLen(ph, mt_epoch)
    /\ mt_pc \in {"train", "validate", "test", "cleanup"} => mt_cleanups = mt_epoch - 1
    /\ \A ph \in {"train", "validate", "test"} : \A l, k \in MtScoresOf(ph) :
         Len(mt_scores[l]) = Len(mt_scores[k])

C21_Witness ==
    /\ mt_pc = "done" /\ mt_epoch = MaxEpochs /\ mt_cleanups = MaxEpochs
    /\ mt_valid_ds.none /\ ~mt_test_ds.none /\ mt_test_ds.batches = 2
    /\ Len(mt_scores["train_ci_scores"]) = MaxEpochs
    /\ Len(mt_scores["valid_ci_scores"]) = 0
    /\ Len(mt_scores["test_ci_scores"]) = MaxEpochs

\* the --dataset values the four tuning scripts accept
AcceptedDatasets == {"SUPPORT", "GBSG2", "WHAS500", "FLCHAIN", "METABRIC", "SEER"}

\* C22: in each of the four tuning scripts a --dataset value outside the
\* accepted set makes train_model raise ValueError("Dataset not found")
\* before any data is loaded or split and before any model is built or
\* fitted, and no metric is logged for that run.
C22_UnknownDatasetRaisesFirst ==
    dataset \notin AcceptedDatasets =>
        /\ loaded = 0 /\ built = 0 /\ logged = 0 /\ dl = "none"
        /\ tune_pc \notin {"get_features", "folds", "build", "log"}
        /\ (run >= 1 /\ tune_pc \in {"agent", "exit"}) =>
             exc = "ValueError: Dataset not found"

C22_Witness ==
    /\ script = "tune_sota_models" /\ tune_model_name = "rsf"
    /\ dataset = "NHANES" /\ tune_pc = "exit" /\ run = 1
    /\ exc = "ValueError: Dataset not found"
    /\ sweeps = 1 /\ loaded = 0 /\ built = 0 /\ logged = 0

\* the nine --model values tune_sota_models supports
NineModels == {"cox", "coxboost", "coxnet", "dcm", "dcph", "dsm", "rsf",
               "baycox", "baymtlr"}

\* C23: tune_sota_models.main raises ValueError("Model not found") for a
\* --model value outside the nine supported names, before a sweep is created
\* or the agent started; a name main accepts is accepted by train_model's
\* default-parameter chain and by its model-construction chain too.
C23_ModelChainsAgree ==
    script = "tune_sota_models" =>
        /\ tune_model_name \notin NineModels =>
             /\ sweeps = 0 /\ run = 0
             /\ tune_pc \in {"main", "exit"}
             /\ tune_pc = "exit" => exc = "ValueError: Model not found"
        /\ tune_model_name \in NineModels =>
             /\ exc # "ValueError: Model not found"
             /\ tune_pc # "main" => sweeps = 1
        /\ SweepConfigModels = NineModels
        /\ SweepConfigModels \subseteq DefaultParamsModels
        /\ SweepConfigModels \subseteq BuildModels

C23_Witness ==
    /\ script = "tune_sota_models" /\ tune_model_name = "dcph"
    /\ dataset = "SUPPORT" /\ tune_pc = "exit"
    /\ run = N_RUNS /\ built = N_RUNS /\ logged = N_RUNS /\ exc = "none"

\* C24: every keyword tune_mlp_model.train_model passes to
\* model_trainer.Trainer is a parameter of Trainer.__init__, so the Trainer is
\* constructed without error and train_and_evaluate runs N_EPOCHS training
\* epochs with the validation and test phases skipped.
C24_TuneMlpTrainerConstructed ==
    mt_kwargs = TrainerKwargs =>
        /\ mt_pc # "raised" /\ mt_exc = "none"
        /\ mt_pc = "done" =>
             /\ mt_epoch = N_EPOCHS
             /\ Len(mt_scores["train_loss_scores"]) = N_EPOCHS
             /\ Len(mt_scores["valid_loss_scores"]) = 0
             /\ Len(mt_scores["test_loss_scores"]) = 0

\* the constructor call of tune_mlp_model has raised
C24_ConstructorRaised ==
    mt_kwargs = TrainerKwargs /\ mt_pc = "raised" /\ mt_exc = "TypeError"

====
